---- MODULE Spec2Model ----
(***************************************************************************)
(* kubectl-incluster: the run of main() as a state machine.                *)
(*                                                                         *)
(* The state is main's position (pc), the rest.Config it builds (c), the   *)
(* environment it reads (environment variables, files, kubeconfig files,   *)
(* the proxy, the host-alias table, the directory service) and what it     *)
(* writes (the log, standard output, the exit code).  Byte strings that    *)
(* the program searches or rewrites (the Host, the probe buffer, the       *)
(* service account specifier) are sequences of one-character strings;      *)
(* opaque material (tokens, PEM blocks, paths) is a TLA+ string, "" when   *)
(* empty.                                                                  *)
(***************************************************************************)
EXTENDS Integers, Sequences, FiniteSets, TLC

VARIABLES
    pc,             \* main's position
    env,            \* environment variables and flags read by RestConfig
    fs,             \* the files: path -> content, NoFile when unreadable
    c,              \* the rest.Config of main (line 87)
    resolved,       \* the result of RestConfig at line 87, kept for reference
    serviceaccount, \* the flag *serviceaccount after line 96
    dir,            \* the directory service seen by getServiceAccount
    saResult,       \* the result of getServiceAccount (line 121)
    proxyCACert,    \* line 78
    probe,          \* the proxy probe: listener, body, buffer, deadline
    addrs,          \* the result of hostsfile.ReverseLookup (line 229)
    opts,           \* the output flags, read at lines 266-282
    stdout,         \* what has been written to standard output
    log,            \* the messages logged with Errorf and Infof
    exitCode        \* -1 while running, 0 or 1 once the process has ended

vars == <<pc, env, fs, c, resolved, serviceaccount, dir, saResult, proxyCACert,
          probe, addrs, opts, stdout, log, exitCode>>

-----------------------------------------------------------------------------
(* Byte strings *)

Https == <<"h", "t", "t", "p", "s", ":", "/", "/">>
Localhost == <<"l", "o", "c", "a", "l", "h", "o", "s", "t">>
Loopback == <<"1", "2", "7", ".", "0", ".", "0", ".", "1">>
DONE == <<"D", "O", "N", "E">>

Range(s) == {s[i] : i \in 1..Len(s)}

\* strings.HasPrefix
HasPrefix(s, p) == Len(s) >= Len(p) /\ SubSeq(s, 1, Len(p)) = p

\* strings.Contains, bytes.Contains
Contains(s, sub) ==
    \E i \in 1..(Len(s) - Len(sub) + 1) : SubSeq(s, i, i + Len(sub) - 1) = sub

\* strings.ReplaceAll for a non-empty old: leftmost, non-overlapping
RECURSIVE ReplaceAll(_, _, _)
ReplaceAll(s, old, new) ==
    IF Len(s) < Len(old) THEN s
    ELSE IF HasPrefix(s, old)
         THEN new \o ReplaceAll(SubSeq(s, Len(old) + 1, Len(s)), old, new)
         ELSE <<Head(s)>> \o ReplaceAll(Tail(s), old, new)

\* strings.Split(s, sep) for a one-byte separator
RECURSIVE Split(_, _)
Split(s, sep) ==
    IF \A i \in 1..Len(s) : s[i] # sep THEN <<s>>
    ELSE LET i == CHOOSE k \in 1..Len(s) : s[k] = sep /\ \A j \in 1..(k - 1) : s[j] # sep
         IN <<SubSeq(s, 1, i - 1)>> \o Split(SubSeq(s, i + 1, Len(s)), sep)

\* net.JoinHostPort
JoinHostPort(host, port) ==
    IF ":" \in Range(host) \/ "%" \in Range(host)
    THEN <<"[">> \o host \o <<"]", ":">> \o port
    ELSE host \o <<":">> \o port

-----------------------------------------------------------------------------
(* The environment: files, kubeconfig files, environment variables *)

NoFile == "<unreadable>"
NoPath == <<>>
NoKubeFile == [missing |-> TRUE]

\* a path is <<prefix, rest>>: *root + "/var/run/..." is <<root, "/var/run/...">>
tokenFile == <<env.root, "/var/run/secrets/kubernetes.io/serviceaccount/token">>
rootCAFile == <<env.root, "/var/run/secrets/kubernetes.io/serviceaccount/ca.crt">>

\* ioutil.ReadFile: the content, or NoFile for an error
ReadFile(path) == IF path \in DOMAIN fs THEN fs[path] ELSE NoFile

\* rest.Config, the fields main.go reads or writes
EmptyCfg ==
    [Host |-> <<>>, CAFile |-> NoPath, CAData |-> "", CertFile |-> NoPath,
     CertData |-> "", KeyFile |-> NoPath, KeyData |-> "", BearerToken |-> "",
     BearerTokenFile |-> NoPath, UserAgent |-> "", Proxy |-> "env"]

Port6443 == <<":", "6", "4", "4", "3">>
HostLocalhost == Https \o Localhost \o Port6443
HostLoopback == Https \o Loopback \o Port6443
HostRemote == Https \o <<"k", "8", "s">> \o Port6443

\* The kubeconfig files a user may have.  Each context is given as the
\* rest.Config that clientcmd builds from it.
ExplicitKubeFile ==
    [CurrentContext |-> "ctxA",
     Contexts |->
        [ctxA |-> [EmptyCfg EXCEPT !.Host = HostLoopback, !.CAData = "caX",
                                   !.CertData = "certX", !.KeyData = "keyX"],
         ctxB |-> [EmptyCfg EXCEPT !.Host = HostRemote, !.CAFile = <<"", "/ca.pem">>,
                                   !.BearerToken = "tokX",
                                   !.BearerTokenFile = <<"", "/tok">>]]]

DefaultKubeFile ==
    [CurrentContext |-> "ctxA",
     Contexts |->
        [ctxA |-> [EmptyCfg EXCEPT !.Host = HostLocalhost, !.CAData = "caD",
                                   !.CertFile = <<"", "/c.pem">>,
                                   !.KeyFile = <<"", "/k.pem">>],
         ctxB |-> [EmptyCfg EXCEPT !.Host = HostLoopback, !.CAData = "caD",
                                   !.BearerToken = "tokD", !.CertData = "certD",
                                   !.KeyData = "keyD"]]]

\* a file whose cluster is served without TLS, with a token as identity
HostHttp == <<"h", "t", "t", "p", ":", "/", "/">> \o Localhost \o <<":", "8", "0">>
DefaultKubeFileHttp ==
    [CurrentContext |-> "ctxB",
     Contexts |-> [ctxB |-> [EmptyCfg EXCEPT !.Host = HostHttp, !.BearerToken = "tokH"]]]

\* the same file without a current-context
DefaultKubeFileNoCurrent == [DefaultKubeFile EXCEPT !.CurrentContext = ""]

\* what clientcmd's Load gives when no file is found at the default location
EmptyKubeFile == [CurrentContext |-> "", Contexts |-> [x \in {} |-> EmptyCfg]]

ExplicitPath == "/x.yaml"

\* the files of one run; the service account files under another root prefix
\* exist as well, with other content
otherRoot == IF env.root = "" THEN "/tp" ELSE ""
Files(token, ca) ==
    [p \in {tokenFile, rootCAFile, <<otherRoot, tokenFile[2]>>, <<"", "/ca.pem">>,
            <<"", "/c.pem">>, <<"", "/k.pem">>, <<"", "/tok">>, <<"", "/replace.pem">>} |->
        CASE p = tokenFile -> token
          [] p = rootCAFile -> ca
          [] p = <<otherRoot, tokenFile[2]>> -> "othertoken"
          [] p = <<"", "/ca.pem">> -> "caFileX"
          [] p = <<"", "/c.pem">> -> "certFileD"
          [] p = <<"", "/k.pem">> -> "keyFileD"
          [] p = <<"", "/tok">> -> "tokFileX"
          [] p = <<"", "/replace.pem">> -> "caReplace"]

-----------------------------------------------------------------------------
(* Credential resolution *)

\* (*rest.Config, error), with what the call logged through klog
Ok(cfg) == [cfg |-> cfg, err |-> "", logged |-> <<>>]
Err(msg) == [cfg |-> EmptyCfg, err |-> msg, logged |-> <<>>]

\* loadRules.Load(): an explicit path must exist, the default location need not
Load(path) ==
    IF path # ""
    THEN IF path = ExplicitPath /\ env.explicitFile # NoKubeFile
         THEN [file |-> env.explicitFile, err |-> ""]
         ELSE [file |-> EmptyKubeFile, err |-> "error loading kubeconfig"]
    ELSE IF env.defaultFile # NoKubeFile
         THEN [file |-> env.defaultFile, err |-> ""]
         ELSE [file |-> EmptyKubeFile, err |-> ""]

outClusterConfig(kubeconfig, kubecontext) ==
    LET l == Load(kubeconfig)
        apicfg == l.file
        ctx == IF kubecontext # "" THEN kubecontext ELSE apicfg.CurrentContext
    IN IF l.err # "" THEN Err(l.err)
       ELSE IF kubecontext = "" /\ apicfg.CurrentContext = ""
            THEN Err("no context was provided and no current context was found in the kubeconfig")
       ELSE IF ctx \notin DOMAIN apicfg.Contexts
            THEN Err("context does not exist")
       ELSE Ok(apicfg.Contexts[ctx])

\* a variant in which an unreadable ca.crt is an error
InClusterConfigStrictCA ==
    LET host == env.KUBERNETES_SERVICE_HOST
        port == env.KUBERNETES_SERVICE_PORT
        token == ReadFile(tokenFile)
    IN IF Len(host) = 0 \/ Len(port) = 0 THEN Err("ErrNotInCluster")
       ELSE IF token = NoFile \/ ReadFile(rootCAFile) = NoFile
            THEN Err("reading the service account files")
       ELSE [cfg |-> [EmptyCfg EXCEPT
                        !.Host = Https \o JoinHostPort(host, port),
                        !.CAFile = rootCAFile,
                        !.BearerToken = token,
                        !.BearerTokenFile = tokenFile],
             err |-> "", logged |-> <<>>]

InClusterConfig ==
    LET host == env.KUBERNETES_SERVICE_HOST
        port == env.KUBERNETES_SERVICE_PORT
        token == ReadFile(tokenFile)
    IN IF Len(host) = 0 \/ Len(port) = 0 THEN Err("ErrNotInCluster")
       ELSE IF token = NoFile THEN Err("reading the token file")
       ELSE [cfg |-> [EmptyCfg EXCEPT
                        !.Host = Https \o JoinHostPort(host, port),
                        !.CAFile = IF ReadFile(rootCAFile) = NoFile THEN NoPath
                                   ELSE rootCAFile,
                        !.BearerToken = token,
                        !.BearerTokenFile = tokenFile],
             err |-> "",
             logged |-> IF ReadFile(rootCAFile) = NoFile
                        THEN <<"klog: Expected to load root CA config">> ELSE <<>>]

RestConfig(kubeconfig, kubecontext, userAgent) ==
    LET explicit == outClusterConfig(kubeconfig, kubecontext)
        incluster == InClusterConfig
        fallback == outClusterConfig("", kubecontext)
    IN IF kubeconfig # "" /\ explicit.err # ""
       THEN Err("error loading kube config")
       ELSE IF incluster.err = ""
            THEN [incluster EXCEPT !.cfg.UserAgent = userAgent]
       ELSE IF fallback.err # ""
            THEN Err("error loading kube config")
       ELSE Ok([fallback.cfg EXCEPT !.UserAgent = userAgent])

-----------------------------------------------------------------------------
(* Delegated identity: getServiceAccount *)

\* The directory service as getServiceAccount sees it: whether a client can
\* be built, the service account (found or not, its secret references in
\* listed order), the secrets by name, and what CreateToken answers
\* ("" for an error).
SecretSA == [err |-> FALSE, Type |-> "kubernetes.io/service-account-token",
             hasToken |-> TRUE, token |-> "tokSecret"]
SecretOpaque == [err |-> FALSE, Type |-> "Opaque", hasToken |-> TRUE, token |-> "tokOpaque"]
SecretNoKey == [SecretSA EXCEPT !.hasToken = FALSE, !.token = ""]
SecretErr == [SecretSA EXCEPT !.err = TRUE]

Directory(found, refs, s0, s1, minted) ==
    [clientErr |-> FALSE, found |-> found, Secrets |-> refs,
     secret |-> [s0 |-> s0, s1 |-> s1], createToken |-> minted]

Directories ==
    { Directory(FALSE, <<>>, SecretSA, SecretSA, ""),
      Directory(TRUE, <<>>, SecretSA, SecretSA, "tokMinted"),
      Directory(TRUE, <<>>, SecretSA, SecretSA, ""),
      Directory(TRUE, <<"s1">>, SecretOpaque, SecretSA, "tokMinted"),
      Directory(TRUE, <<"s0", "s1">>, SecretOpaque, SecretSA, "tokMinted"),
      Directory(TRUE, <<"s0">>, SecretOpaque, SecretSA, "tokMinted"),
      Directory(TRUE, <<"s0", "s1">>, SecretOpaque, SecretErr, "tokMinted"),
      Directory(TRUE, <<"s1">>, SecretOpaque, SecretNoKey, "tokMinted"),
      [Directory(TRUE, <<>>, SecretSA, SecretSA, "tokMinted") EXCEPT !.clientErr = TRUE] }

\* the loop of lines 352-361: the secrets fetched, and the one held at the end
RECURSIVE FetchSecrets(_, _, _)
FetchSecrets(d, refs, calls) ==
    IF refs = <<>> THEN [secret |-> SecretErr, err |-> FALSE, none |-> TRUE, calls |-> calls]
    ELSE LET got == d.secret[Head(refs)]
             now == Append(calls, <<"GetSecret", Head(refs)>>)
         IN IF got.err THEN [secret |-> got, err |-> TRUE, none |-> FALSE, calls |-> now]
            ELSE IF got.Type = "kubernetes.io/service-account-token" \/ Tail(refs) = <<>>
                 THEN [secret |-> got, err |-> FALSE, none |-> FALSE, calls |-> now]
            ELSE FetchSecrets(d, Tail(refs), now)

SaResult(token, err, calls) == [token |-> token, err |-> err, calls |-> calls]

\* line 334: the lookup answers a service account only for a non-empty
\* namespace and a non-empty name (an empty name is refused by the client, an
\* empty namespace names no service account)
ServiceAccountFound(d, namespace, name) ==
    d.found /\ namespace # <<>> /\ name # <<>>

\* a variant that generates a token also for a service account with one
\* secret reference
getServiceAccountMintsWithOneSecret(cfg, specifier, d) ==
    LET splits == Split(specifier, "/")
        c1 == <<<<"NewForConfig">>>>
        c2 == Append(c1, <<"GetServiceAccount">>)
        c3 == Append(c2, <<"CreateToken">>)
        f == FetchSecrets(d, d.Secrets, c2)
    IN IF Len(splits) # 2
       THEN SaResult("", "expected value of the form 'namespace/serviceaccount'", <<>>)
       ELSE IF d.clientErr THEN SaResult("", "creating Kubernetes client", c1)
       ELSE IF ~ServiceAccountFound(d, splits[1], splits[2])
            THEN SaResult("", "getting serviceaccount", c2)
       ELSE IF Len(d.Secrets) < 2
            THEN IF d.createToken = ""
                 THEN SaResult("", "failed to generate a token", c3)
                 ELSE SaResult(d.createToken, "", c3)
       ELSE IF f.err THEN SaResult("", "failed to get the secret", f.calls)
       ELSE IF f.none THEN SaResult("", "has no secret type", f.calls)
       ELSE IF ~f.secret.hasToken THEN SaResult("", "key 'token' not found", f.calls)
       ELSE SaResult(f.secret.token, "", f.calls)

getServiceAccount(cfg, specifier, d) ==
    LET splits == Split(specifier, "/")
        c1 == <<<<"NewForConfig">>>>
        c2 == Append(c1, <<"GetServiceAccount">>)
        c3 == Append(c2, <<"CreateToken">>)
        f == FetchSecrets(d, d.Secrets, c2)
    IN IF Len(splits) # 2
       THEN SaResult("", "expected value of the form 'namespace/serviceaccount'", <<>>)
       ELSE IF d.clientErr THEN SaResult("", "creating Kubernetes client", c1)
       ELSE IF ~ServiceAccountFound(d, splits[1], splits[2])
            THEN SaResult("", "getting serviceaccount", c2)
       ELSE IF Len(d.Secrets) < 1
            THEN IF d.createToken = ""
                 THEN SaResult("", "failed to generate a token", c3)
                 ELSE SaResult(d.createToken, "", c3)
       ELSE IF f.err THEN SaResult("", "failed to get the secret", f.calls)
       ELSE IF f.none THEN SaResult("", "has no secret type", f.calls)
       ELSE IF ~f.secret.hasToken THEN SaResult("", "key 'token' not found", f.calls)
       ELSE SaResult(f.secret.token, "", f.calls)

\* a variant that leaves the client certificate and key in place
UseServiceAccountTokenKeepCert(cfg, token) == [cfg EXCEPT !.BearerToken = token]

\* lines 127-131
UseServiceAccountToken(cfg, token) ==
    [cfg EXCEPT !.BearerToken = token, !.KeyData = "", !.KeyFile = NoPath,
                !.CertData = "", !.CertFile = NoPath]

-----------------------------------------------------------------------------
(* The companion certificate endpoint of the proxy *)

\* what GET http://mitm.it/cert/pem through the proxy may answer
MitmResponses ==
    { [getErr |-> TRUE, contentType |-> "", body |-> "", readErr |-> FALSE],
      [getErr |-> FALSE, contentType |-> "application/x-x509-ca-cert",
       body |-> "caMitm", readErr |-> FALSE],
      [getErr |-> FALSE, contentType |-> "text/html", body |-> "html", readErr |-> FALSE],
      [getErr |-> FALSE, contentType |-> "text/html", body |-> "html", readErr |-> TRUE] }

fetchCACertFromMitmproxy(resp) ==
    IF resp.getErr
    THEN [pem |-> "", err |-> "while trying to fetch the CA cert", logged |-> <<>>]
    ELSE LET logged == IF resp.contentType # "application/x-x509-ca-cert"
                       THEN <<"error: unexpected content type of GET mitm.it/cert/pem">>
                       ELSE <<>>
         IN IF resp.readErr
            THEN [pem |-> "", err |-> "while reading the body", logged |-> logged]
            ELSE [pem |-> resp.body, err |-> "", logged |-> logged]

-----------------------------------------------------------------------------
(* The artifact and the two export modes *)

EmptyApi == [Server |-> <<>>, CertificateAuthorityData |-> "",
             ClientCertificateData |-> "", ClientKeyData |-> "", Token |-> ""]

\* inline data, replaced by the content of the file when a file is named;
\* NoFile when that file cannot be read
DataOrFile(data, file) == IF file # NoPath THEN ReadFile(file) ELSE data

kubeconfigFromRestConfig(restconf, replaceCACertFile, replaceCAData) ==
    LET caFile == IF replaceCACertFile # NoPath THEN replaceCACertFile
                  ELSE restconf.CAFile
        after == [restconf EXCEPT !.CAFile = caFile]
        ca == DataOrFile(restconf.CAData, caFile)
        cert == DataOrFile(restconf.CertData, restconf.CertFile)
        key == DataOrFile(restconf.KeyData, restconf.KeyFile)
        token == DataOrFile(restconf.BearerToken, restconf.BearerTokenFile)
        failed(e) == [apiconf |-> EmptyApi, err |-> e, restconf |-> after]
    IN IF ca = NoFile THEN failed("reading CA file")
       ELSE IF cert = NoFile THEN failed("reading client certificate file")
       ELSE IF key = NoFile THEN failed("reading client key file")
       ELSE IF token = NoFile THEN failed("reading token file")
       ELSE [apiconf |-> [Server |-> restconf.Host,
                          CertificateAuthorityData |-> ca,
                          ClientCertificateData |-> cert,
                          ClientKeyData |-> key,
                          Token |-> token],
             err |-> "", restconf |-> after]

\* a PEM bundle is the sequence of the blocks appended to it
clientCertPEMFromRestConfig(restconf) ==
    LET keyRead == ReadFile(restconf.KeyFile)
        certRead == ReadFile(restconf.CertFile)
        keyPart == IF restconf.KeyFile # NoPath THEN <<keyRead>>
                   ELSE IF restconf.KeyData # "" THEN <<restconf.KeyData>>
                   ELSE <<>>
        certPart == IF restconf.CertData # "" THEN <<restconf.CertData>>
                    ELSE IF restconf.CertFile # NoPath THEN <<certRead>>
                    ELSE <<>>
    IN IF restconf.KeyFile # NoPath /\ keyRead = NoFile
       THEN [pem |-> <<>>, err |-> "reading client key file"]
       ELSE IF restconf.KeyFile = NoPath /\ restconf.KeyData = ""
               /\ restconf.BearerTokenFile # NoPath
            THEN [pem |-> <<>>, err |-> "cannot produce a PEM client certificate bundle when the kube config uses a token"]
       ELSE IF restconf.CertData = "" /\ restconf.CertFile # NoPath /\ certRead = NoFile
            THEN [pem |-> <<>>, err |-> "reading client certificate file"]
       ELSE [pem |-> keyPart \o certPart, err |-> ""]

caCertPEMFromRestConfig(restconf) ==
    IF restconf.CAData # "" THEN [pem |-> <<restconf.CAData>>, err |-> ""]
    ELSE IF restconf.CAFile # NoPath
         THEN IF ReadFile(restconf.CAFile) = NoFile
              THEN [pem |-> <<>>, err |-> "reading client certificate file"]
              ELSE [pem |-> <<ReadFile(restconf.CAFile)>>, err |-> ""]
    ELSE [pem |-> <<>>, err |-> "no ca-certificate-data nor ca-certificate-file"]

-----------------------------------------------------------------------------
(* The host-alias table and the streaming probe *)

Me == <<"m", "e">>
AliasLocalDomain == Localhost \o <<".", "l", "d">>
AliasNipIo == Loopback \o <<".", "i", "o">>

\* what hostsfile.ReverseLookup("127.0.0.1") may return, in table order
HostTables ==
    { <<>>, <<Localhost>>, <<Localhost, Me>>, <<Me, Localhost>>,
      <<Localhost, AliasLocalDomain, Me>>, <<Localhost, AliasNipIo>> }

\* lines 239-245: the first address that is not "localhost", "" when none
RECURSIVE FirstAlias(_)
FirstAlias(names) ==
    IF names = <<>> THEN <<>>
    ELSE IF Head(names) # Localhost THEN Head(names)
    ELSE FirstAlias(Tail(names))

\* a variant that rewrites the scheme as well
RewriteHostAndScheme(host, alias) ==
    ReplaceAll(ReplaceAll(ReplaceAll(host, Https, <<"h", "t", "t", "p", ":", "/", "/">>),
                          Localhost, alias), Loopback, alias)

\* lines 258-259
RewriteHost(host, alias) ==
    ReplaceAll(ReplaceAll(host, Localhost, alias), Loopback, alias)

\* the length of the read buffer of line 203, scaled down
BufLen == 6
StatusOK == 200

\* a variant that lets every status of the 2xx class pass
StatusPasses2xx(status) == status >= 200 /\ status < 300

\* line 198: the status with which the probe goes on
StatusPasses(status) == status = StatusOK

ZeroBuf == [i \in 1..BufLen |-> "0"]

\* Read(buf): the bytes read overwrite the head of the buffer
ReadInto(buf, data) == [i \in 1..BufLen |-> IF i <= Len(data) THEN data[i] ELSE buf[i]]

\* what the proxy may send as the body of its response
ProbeBodies == {DONE, <<"N", "O">>, <<>>}
ProbeStatuses == {StatusOK, 204, 502}

ProbeInit ==
    [listener |-> "none", body |-> "none", status |-> 0, buf |-> ZeroBuf,
     pending |-> <<>>, received |-> <<>>, deadline |-> "pending", outcome |-> "none",
     ended |-> "none"]

\* lines 219-221: the loop has ended with a break; the listener and the body
\* are closed and the block's buffer goes out of scope
ProbeEnd(p, how) ==
    [p EXCEPT !.outcome = "StreamingSupported", !.ended = how, !.listener = "closed",
              !.body = "closed", !.buf = ZeroBuf]

-----------------------------------------------------------------------------
(* main *)

Specifiers == { <<>>, <<"n", "/", "s">>, <<"n">>, <<"n", "/", "s", "/", "x">> }
ShortSpecifiers == { <<>>, <<"m", "/", "t">> }

\* the directories main is run against
MainDirectories ==
    { d \in Directories :
        /\ ~d.clientErr
        /\ d.Secrets \in {<<>>, <<"s0", "s1">>}
        /\ d.found => d.createToken # "" }

Init ==
    /\ pc = "start"
    /\ env \in [kubeconfig : {"", ExplicitPath},
                kubecontext : {"", "ctxB"},
                root : {"/tp"},
                KUBERNETES_SERVICE_HOST : {<<>>, <<"1", "0", ".", "1">>},
                KUBERNETES_SERVICE_PORT : {<<>>, <<"4", "4", "3">>},
                explicitFile : {NoKubeFile, ExplicitKubeFile},
                defaultFile : {NoKubeFile, DefaultKubeFile, DefaultKubeFileNoCurrent,
                               DefaultKubeFileHttp},
                HTTPS_PROXY : {"", "http://127.0.0.1:9090"}]
    /\ env.kubeconfig = "" => env.explicitFile = NoKubeFile
    /\ fs \in {Files(token, ca) : token \in {NoFile, "tokPod"}, ca \in {NoFile, "caPod"}}
    /\ c = EmptyCfg
    /\ resolved = Err("not called")
    /\ serviceaccount = <<>>
    /\ dir = Directory(FALSE, <<>>, SecretSA, SecretSA, "")
    /\ saResult = SaResult("", "", <<>>)
    /\ proxyCACert = ""
    /\ probe = ProbeInit
    /\ addrs = [read |-> FALSE, err |-> FALSE, names |-> <<>>]
    /\ opts = [printClientCert |-> FALSE, printCACert |-> FALSE, replacecacert |-> NoPath]
    /\ stdout = <<>>
    /\ log = <<>>
    /\ exitCode = -1

\* os.Exit(1): the process ends there (deferred calls do not run)
ExitWrongCode ==
    /\ exitCode' = 0
    /\ pc' = "exit"

Exit ==
    /\ exitCode' = 1
    /\ pc' = "exit"

\* logutil.Errorf (or Infof) followed by os.Exit(1)
Fatal(msg) ==
    /\ log' = Append(log, msg)
    /\ Exit

FatalAfter(logged, msg) ==
    /\ log' = Append(log \o logged, msg)
    /\ Exit

\* a variant in which a failing fetch of the proxy's certificate ends the run
FetchCACertOrExit ==
    /\ pc = "start"
    /\ IF env.HTTPS_PROXY = ""
       THEN proxyCACert' = "" /\ pc' = "resolve" /\ UNCHANGED <<log, exitCode>>
       ELSE \E resp \in MitmResponses :
               LET r == fetchCACertFromMitmproxy(resp)
               IN /\ proxyCACert' = r.pem
                  /\ IF r.err # ""
                     THEN FatalAfter(r.logged, "error: fetching the CA certificate from mitmproxy")
                     ELSE /\ log' = log \o r.logged
                          /\ pc' = "resolve"
                          /\ exitCode' = exitCode
    /\ UNCHANGED <<env, fs, c, resolved, serviceaccount, dir, saResult, probe,
                   addrs, opts, stdout>>

\* lines 76-85
FetchCACert ==
    /\ pc = "start"
    /\ IF env.HTTPS_PROXY = ""
       THEN proxyCACert' = "" /\ log' = log
       ELSE \E resp \in MitmResponses :
               LET r == fetchCACertFromMitmproxy(resp)
               IN proxyCACert' = r.pem /\ log' = log \o r.logged
    /\ pc' = "resolve"
    /\ UNCHANGED <<env, fs, c, resolved, serviceaccount, dir, saResult, probe,
                   addrs, opts, stdout, exitCode>>

\* lines 87-91
Resolve ==
    /\ pc = "resolve"
    /\ LET r == RestConfig(env.kubeconfig, env.kubecontext, "kubectl-incluster")
       IN /\ resolved' = r
          /\ IF r.err # ""
             THEN Fatal("error: loading") /\ c' = c
             ELSE /\ c' = r.cfg
                  /\ log' = log \o r.logged
                  /\ pc' = "sa"
                  /\ exitCode' = exitCode
    /\ UNCHANGED <<env, fs, serviceaccount, dir, saResult, proxyCACert, probe,
                   addrs, opts, stdout>>

\* lines 93-132
ServiceAccount ==
    /\ pc = "sa"
    /\ \E long \in Specifiers, short \in ShortSpecifiers :
          LET flag == IF short # <<>> /\ long = <<>> THEN short ELSE long
              untouched == RestConfig(env.kubeconfig, env.kubecontext, "kubectl-incluster")
          IN /\ serviceaccount' = flag
             /\ IF flag = <<>>
                THEN /\ pc' = "probe"
                     /\ UNCHANGED <<c, dir, saResult, log, exitCode>>
                ELSE IF untouched.err # ""
                THEN Fatal("error: loading") /\ UNCHANGED <<c, dir, saResult>>
                ELSE \E d \in MainDirectories :
                        LET res == getServiceAccount(
                                       [untouched.cfg EXCEPT !.Proxy = "none"], flag, d)
                        IN /\ dir' = d
                           /\ saResult' = res
                           /\ IF res.err # ""
                              THEN /\ FatalAfter(untouched.logged,
                                          "error: while processing flag --serviceaccount")
                                   /\ c' = c
                              ELSE /\ c' = UseServiceAccountToken(c, res.token)
                                   /\ log' = log \o untouched.logged
                                   /\ pc' = "probe"
                                   /\ exitCode' = exitCode
    /\ UNCHANGED <<env, fs, resolved, proxyCACert, probe, addrs, opts, stdout>>

Remediation == "error: the proxy does not supports streaming responses. If you are using mitmproxy, you can enable streaming by using a custom script with the flag '-s': mitmproxy -s <(curl -L https://raw.githubusercontent.com/maelvls/kubectl-incluster/main/watch-stream.py)"

\* lines 134-159: no proxy, no probe; otherwise the temporary server
ProbeListen ==
    /\ pc = "probe"
    /\ IF env.HTTPS_PROXY = ""
       THEN pc' = "alias" /\ UNCHANGED <<probe, log, exitCode>>
       ELSE \E listened \in BOOLEAN :
               IF listened
               THEN /\ probe' = [probe EXCEPT !.listener = "open"]
                    /\ pc' = "probe_do"
                    /\ UNCHANGED <<log, exitCode>>
               ELSE Fatal("error: creating a temporary server") /\ probe' = probe
    /\ UNCHANGED <<env, fs, c, resolved, serviceaccount, dir, saResult, proxyCACert,
                   addrs, opts, stdout>>

\* lines 161-201: the request through the proxy, under the deadline
ProbeDo ==
    /\ pc = "probe_do"
    /\ \E result \in {"proxyconnect", "deadline", "error", "response"} :
          CASE result = "proxyconnect" ->
                  /\ Fatal("error: the env var HTTPS_PROXY is set, but the proxy doesn't seem to be running")
                  /\ probe' = probe
            [] result = "deadline" ->
                  /\ Fatal(Remediation)
                  /\ probe' = [probe EXCEPT !.deadline = "headers"]
            [] result = "error" ->
                  /\ Fatal("error: checking whether proxy supports response streaming using a fake streaming server")
                  /\ probe' = probe
            [] result = "response" ->
                  \E status \in ProbeStatuses, body \in ProbeBodies :
                     /\ probe' = [probe EXCEPT !.status = status, !.body = "open",
                                               !.pending = body]
                     /\ IF ~StatusPasses(status)
                        THEN Fatal("error: the fake server returned a non-200 status code")
                        ELSE pc' = "probe_read" /\ UNCHANGED <<log, exitCode>>
    /\ UNCHANGED <<env, fs, c, resolved, serviceaccount, dir, saResult, proxyCACert,
                   addrs, opts, stdout>>

\* lines 214-217
MarkerSeen(buf) == Contains(buf, DONE)

\* lines 203-221: one iteration of the read loop and, when the loop ends,
\* the two Close calls after it
ProbeRead ==
    /\ pc = "probe_read"
    /\ \E result \in {"data", "EOF", "deadline", "error"} :
          CASE result = "data" ->
                  \E n \in 1..Len(probe.pending) :
                     LET data == SubSeq(probe.pending, 1, n)
                         buf == ReadInto(probe.buf, data)
                         read == [probe EXCEPT
                                    !.buf = buf,
                                    !.pending = SubSeq(probe.pending, n + 1,
                                                       Len(probe.pending)),
                                    !.received = probe.received \o data]
                     IN /\ n <= BufLen
                        /\ IF MarkerSeen(buf)
                           THEN /\ probe' = ProbeEnd(read, "marker")
                                /\ pc' = "alias"
                           ELSE /\ probe' = read
                                /\ pc' = pc
                        /\ UNCHANGED <<log, exitCode>>
            [] result = "EOF" ->
                  /\ probe.pending = <<>>
                  /\ probe' = ProbeEnd(probe, "EOF")
                  /\ pc' = "alias"
                  /\ UNCHANGED <<log, exitCode>>
            [] result = "deadline" ->
                  /\ Fatal("error: checking whether proxy supports response streaming: while reading the response body")
                  /\ probe' = [probe EXCEPT !.deadline = "body"]
            [] result = "error" ->
                  /\ Fatal("error: checking whether proxy supports response streaming: while reading the response body")
                  /\ probe' = probe
    /\ UNCHANGED <<env, fs, c, resolved, serviceaccount, dir, saResult, proxyCACert,
                   addrs, opts, stdout>>

NoAliasWarning == "info: no 127.0.0.1 alias found in /etc/hosts other than localhost"

\* a variant in which the alias lookup may also run while the probe's request
\* is in flight
AliasDuringProbe ==
    /\ pc \in {"alias", "probe_do"} /\ ~addrs.read
    /\ LET next == IF pc = "probe_do" THEN pc ELSE "output"
       IN IF env.HTTPS_PROXY # "" /\ (Contains(c.Host, Localhost) \/ Contains(c.Host, Loopback))
          THEN \E failed \in BOOLEAN :
                  IF failed
                  THEN /\ Fatal("info: we encountered an error while reading /etc/hosts")
                       /\ addrs' = [read |-> TRUE, err |-> TRUE, names |-> <<>>]
                       /\ c' = c
                  ELSE \E names \in HostTables :
                          LET alias == FirstAlias(names)
                          IN /\ addrs' = [read |-> TRUE, err |-> FALSE, names |-> names]
                             /\ log' = IF alias = <<>> THEN Append(log, NoAliasWarning) ELSE log
                             /\ c' = [c EXCEPT !.Host = RewriteHost(c.Host, alias)]
                             /\ pc' = next
                             /\ exitCode' = exitCode
          ELSE pc = "alias" /\ pc' = "output" /\ UNCHANGED <<addrs, c, log, exitCode>>
    /\ UNCHANGED <<env, fs, resolved, serviceaccount, dir, saResult, proxyCACert,
                   probe, opts, stdout>>

\* lines 223-260
Alias ==
    /\ pc = "alias"
    /\ IF env.HTTPS_PROXY # "" /\ (Contains(c.Host, Localhost) \/ Contains(c.Host, Loopback))
       THEN \E failed \in BOOLEAN :
               IF failed
               THEN /\ Fatal("info: we encountered an error while reading /etc/hosts")
                    /\ addrs' = [read |-> TRUE, err |-> TRUE, names |-> <<>>]
                    /\ c' = c
               ELSE \E names \in HostTables :
                       LET alias == FirstAlias(names)
                       IN /\ addrs' = [read |-> TRUE, err |-> FALSE, names |-> names]
                          /\ log' = IF alias = <<>> THEN Append(log, NoAliasWarning) ELSE log
                          /\ c' = [c EXCEPT !.Host = RewriteHost(c.Host, alias)]
                          /\ pc' = "output"
                          /\ exitCode' = exitCode
       ELSE pc' = "output" /\ UNCHANGED <<addrs, c, log, exitCode>>
    /\ UNCHANGED <<env, fs, resolved, serviceaccount, dir, saResult, proxyCACert,
                   probe, opts, stdout>>

\* a variant that also points the record at the proxy
UseProxyCACertAndProxyHost(cfg, pem) ==
    IF pem # "" THEN [cfg EXCEPT !.CAData = pem, !.Host = Https \o Loopback] ELSE cfg

\* lines 262-264
UseProxyCACert(cfg, pem) == IF pem # "" THEN [cfg EXCEPT !.CAData = pem] ELSE cfg

Written(kind, pem, kubeconfig) == [kind |-> kind, pem |-> pem, kubeconfig |-> kubeconfig]

\* lines 262-293
Output ==
    /\ pc = "output"
    /\ \E printClientCert \in BOOLEAN, printCACert \in BOOLEAN,
          replacecacert \in {NoPath, <<"", "/replace.pem">>, <<"", "/missing.pem">>},
          written \in BOOLEAN :
          LET cfg == UseProxyCACert(c, proxyCACert)
              client == clientCertPEMFromRestConfig(cfg)
              ca == caCertPEMFromRestConfig(cfg)
              k == kubeconfigFromRestConfig(cfg, replacecacert, proxyCACert)
              finish(out) == /\ stdout' = Append(stdout, out)
                             /\ pc' = "done"
                             /\ exitCode' = 0
                             /\ log' = log
          IN /\ printClientCert \/ printCACert \/ ~written => replacecacert = NoPath
             /\ printClientCert \/ printCACert => written
             /\ printClientCert => ~printCACert
             /\ opts' = [printClientCert |-> printClientCert, printCACert |-> printCACert,
                         replacecacert |-> replacecacert]
             /\ CASE printClientCert ->
                       /\ c' = cfg
                       /\ IF client.err # ""
                          THEN Fatal("error: building the PEM bundle with the client-certificate-data and client-key-data")
                               /\ stdout' = stdout
                          ELSE finish(Written("pem", client.pem, EmptyApi))
                  [] ~printClientCert /\ printCACert ->
                       /\ c' = cfg
                       /\ IF ca.err # ""
                          THEN Fatal("error: building the PEM bundle with the ca-certificate-data")
                               /\ stdout' = stdout
                          ELSE finish(Written("pem", ca.pem, EmptyApi))
                  [] OTHER ->
                       /\ c' = k.restconf
                       /\ IF k.err # ""
                          THEN Fatal("error: building the kubeconfig") /\ stdout' = stdout
                          ELSE IF ~written
                          THEN Fatal("error: writing") /\ stdout' = stdout
                          ELSE finish(Written("kubeconfig", <<>>, k.apiconf))
    /\ UNCHANGED <<env, fs, resolved, serviceaccount, dir, saResult, proxyCACert,
                   probe, addrs>>

Next ==
    \/ FetchCACert
    \/ Resolve
    \/ ServiceAccount
    \/ ProbeListen
    \/ ProbeDo
    \/ ProbeRead
    \/ Alias
    \/ Output

Spec == Init /\ [][Next]_vars

-----------------------------------------------------------------------------
(* Properties of the credential resolver *)

\* RestConfig has returned at line 87
Resolved == pc \notin {"start", "resolve"}

\* the ambient in-process identity is available: both environment markers
\* are set and the token file under the root prefix can be read
Ambient ==
    /\ Len(env.KUBERNETES_SERVICE_HOST) > 0
    /\ Len(env.KUBERNETES_SERVICE_PORT) > 0
    /\ fs[tokenFile] # NoFile

\* the context selected in a kubeconfig file, and whether there is one
Selected(file) == IF env.kubecontext # "" THEN env.kubecontext ELSE file.CurrentContext
Loads(file) ==
    IF file = NoKubeFile THEN FALSE
    ELSE Selected(file) # "" /\ Selected(file) \in DOMAIN file.Contexts
RecordOf(file) == [file.Contexts[Selected(file)] EXCEPT !.UserAgent = "kubectl-incluster"]

\* C1: with no explicit path, RestConfig returns the ambient credential when
\* both environment markers are set and the token file is readable (without
\* trust anchor when ca.crt is unreadable), otherwise the selected context of
\* the default file, and an error with no record exactly when both fail.
C1_AmbientThenDefault ==
    Resolved /\ env.kubeconfig = "" =>
        IF Ambient
        THEN /\ resolved.err = ""
             /\ resolved.cfg.Host = Https \o env.KUBERNETES_SERVICE_HOST \o <<":">>
                                          \o env.KUBERNETES_SERVICE_PORT
             /\ resolved.cfg.BearerToken = fs[tokenFile]
             /\ resolved.cfg.CAData = ""
             /\ resolved.cfg.CAFile =
                   IF fs[rootCAFile] = NoFile THEN NoPath ELSE rootCAFile
             /\ resolved.cfg.CertData = "" /\ resolved.cfg.CertFile = NoPath
        ELSE IF Loads(env.defaultFile)
        THEN resolved.err = "" /\ resolved.cfg = RecordOf(env.defaultFile)
        ELSE resolved.err # "" /\ resolved.cfg = EmptyCfg

C1_Witness ==
    /\ pc = "sa"
    /\ env.kubeconfig = ""
    /\ Ambient
    /\ fs[rootCAFile] = NoFile
    /\ resolved.err = ""
    /\ resolved.cfg.CAFile = NoPath
    /\ resolved.cfg.BearerToken = "tokPod"

\* C2: with no ambient identity and an explicit path that loads, RestConfig
\* returns the selected context of the explicit file.
C2_ExplicitFileIsUsed ==
    Resolved /\ env.kubeconfig # "" /\ ~Ambient /\ Loads(env.explicitFile) =>
        resolved.err = "" /\ resolved.cfg = RecordOf(env.explicitFile)

\* C3: an explicit path that fails to load is no error while the ambient
\* identity is available.
C3_FailingExplicitFallsBack ==
    Resolved /\ env.kubeconfig # "" /\ ~Loads(env.explicitFile) /\ Ambient =>
        resolved.err = ""

-----------------------------------------------------------------------------
(* Properties of the delegated identity and of the artifact's identity *)

Artifacts == {stdout[i].kubeconfig : i \in {j \in 1..Len(stdout) : stdout[j].kind = "kubeconfig"}}

HasToken(cfg) == cfg.BearerToken # "" \/ cfg.BearerTokenFile # NoPath
HasCertOrKey(cfg) ==
    \/ cfg.CertData # "" \/ cfg.CertFile # NoPath
    \/ cfg.KeyData # "" \/ cfg.KeyFile # NoPath

\* C4: after a successful exchange the token of the artifact is the token the
\* exchange returned, and the artifact has no client certificate and no key.
C4_ExchangedTokenIsWritten ==
    \A a \in Artifacts :
        serviceaccount # <<>> =>
            /\ a.Token = saResult.token
            /\ a.ClientCertificateData = ""
            /\ a.ClientKeyData = ""

\* C5 as stated: no artifact has both a token and a client certificate or key.
C5_NeverBoth ==
    \A a \in Artifacts :
        ~(a.Token # "" /\ (a.ClientCertificateData # "" \/ a.ClientKeyData # ""))

\* C5: an artifact has both a token and a client certificate or key only when
\* no delegated identity was requested and the resolved record itself holds
\* both; after a delegated identity exchange it has no certificate and no key.
C5_BothOnlyFromTheRecord ==
    \A a \in Artifacts :
        /\ a.Token # "" /\ (a.ClientCertificateData # "" \/ a.ClientKeyData # "") =>
              /\ serviceaccount = <<>>
              /\ HasToken(resolved.cfg)
              /\ HasCertOrKey(resolved.cfg)
        /\ serviceaccount # <<>> =>
              a.ClientCertificateData = "" /\ a.ClientKeyData = ""

C5_Witness ==
    /\ pc = "done"
    /\ serviceaccount # <<>>
    /\ HasCertOrKey(resolved.cfg)
    /\ \E a \in Artifacts :
          a.Token # "" /\ a.ClientCertificateData = "" /\ a.ClientKeyData = ""

-----------------------------------------------------------------------------
(* Properties of the streaming probe *)

\* C6: when the deadline expires before the marker has been read, while
\* waiting for the response or while reading the body, the invocation ends
\* fatally with the remediation diagnostic.
C6_DeadlineIsStreamingUnsupported ==
    probe.deadline # "pending" /\ ~Contains(probe.received, DONE) =>
        exitCode = 1 /\ Remediation \in Range(log)

\* C7: once the payload DONE has arrived with a 200 status, in however many
\* reads, the probe has ended with StreamingSupported.
C7_MarkerInAccumulatedBytes ==
    probe.status = StatusOK /\ Contains(probe.received, DONE) =>
        probe.outcome = "StreamingSupported" /\ exitCode # 1

\* the messages that main logs right before os.Exit(1)
FatalMessages ==
    { "error: loading",
      "error: while processing flag --serviceaccount",
      "error: creating a temporary server",
      "error: the env var HTTPS_PROXY is set, but the proxy doesn't seem to be running",
      Remediation,
      "error: checking whether proxy supports response streaming using a fake streaming server",
      "error: the fake server returned a non-200 status code",
      "error: checking whether proxy supports response streaming: while reading the response body",
      "info: we encountered an error while reading /etc/hosts",
      "error: building the PEM bundle with the client-certificate-data and client-key-data",
      "error: building the PEM bundle with the ca-certificate-data",
      "error: building the kubeconfig",
      "error: writing" }

FatalOccurred ==
    \/ Range(log) \cap FatalMessages # {}
    \/ Resolved /\ resolved.err # ""
    \/ saResult.err # ""
    \/ addrs.err
    \/ probe.deadline # "pending"
    \/ probe.status \notin {0, StatusOK}

\* C8: once a fatal error has occurred nothing is written to the output and
\* the invocation ends with a non-zero outcome; with a proxy configured,
\* output is written only after the probe has ended with StreamingSupported.
C8_NoOutputAfterFatal ==
    /\ FatalOccurred => stdout = <<>> /\ exitCode = 1 /\ pc = "exit"
    /\ stdout # <<>> =>
          /\ exitCode = 0
          /\ env.HTTPS_PROXY # "" => probe.outcome = "StreamingSupported"

C8_Witness ==
    /\ pc = "exit"
    /\ env.HTTPS_PROXY # ""
    /\ probe.status = 502
    /\ Len(log) > 0
    /\ stdout = <<>>
    /\ exitCode = 1

-----------------------------------------------------------------------------
(* Properties of the loopback alias *)

\* every occurrence of "localhost" and of "127.0.0.1" in s replaced by alias,
\* in one pass from left to right
RECURSIVE ReplaceLoopbackNames(_, _)
ReplaceLoopbackNames(s, alias) ==
    IF s = <<>> THEN <<>>
    ELSE IF HasPrefix(s, Localhost)
         THEN alias \o ReplaceLoopbackNames(SubSeq(s, Len(Localhost) + 1, Len(s)), alias)
    ELSE IF HasPrefix(s, Loopback)
         THEN alias \o ReplaceLoopbackNames(SubSeq(s, Len(Loopback) + 1, Len(s)), alias)
    ELSE <<Head(s)>> \o ReplaceLoopbackNames(Tail(s), alias)

OtherAliases == {i \in 1..Len(addrs.names) : addrs.names[i] # Localhost}

\* the alias stage has run on a loopback endpoint and the table was read
AliasLookedUp == pc \in {"output", "done"} /\ addrs.read /\ ~addrs.err

\* C9: with a proxy, a loopback endpoint and no alias other than localhost, a
\* warning is logged, the run goes on and the endpoint stays as resolved.
C9_NoAliasLeavesEndpoint ==
    AliasLookedUp /\ OtherAliases = {} =>
        /\ NoAliasWarning \in Range(log)
        /\ c.Host = resolved.cfg.Host
        /\ \A a \in Artifacts : a.Server = resolved.cfg.Host

\* C10: with a proxy, a loopback endpoint and an alias other than localhost,
\* every occurrence of "localhost" and of "127.0.0.1" in the endpoint is
\* replaced by the first such alias of the table; the rest is unchanged.
C10_EndpointRewrittenToFirstAlias ==
    AliasLookedUp /\ OtherAliases # {} =>
        LET first == addrs.names[CHOOSE i \in OtherAliases : \A j \in OtherAliases : i <= j]
        IN c.Host = ReplaceLoopbackNames(resolved.cfg.Host, first)

-----------------------------------------------------------------------------
(* Properties of the artifact and of the export modes *)

\* the trust anchor of a record: its inline bytes, else the content of the
\* file it refers to
OwnTrustAnchor(cfg) ==
    IF cfg.CAData # "" THEN cfg.CAData
    ELSE IF cfg.CAFile # NoPath THEN ReadFile(cfg.CAFile)
    ELSE ""

\* C11: the trust anchor of the artifact is the content of the override file
\* when one is given, else the trust anchor fetched from the proxy when there
\* is one, else the trust anchor of the resolved record, inline or in a file.
C11_TrustAnchorPrecedence ==
    \A a \in Artifacts :
        a.CertificateAuthorityData =
            IF opts.replacecacert # NoPath THEN ReadFile(opts.replacecacert)
            ELSE IF proxyCACert # "" THEN proxyCACert
            ELSE OwnTrustAnchor(resolved.cfg)

\* inline bytes when there are some, else the content of the file referred to
InlineOrFile(data, file) ==
    IF data # "" THEN data
    ELSE IF file # NoPath THEN ReadFile(file)
    ELSE ""

\* C12: the client certificate, the client key and the token of the artifact
\* are each the inline bytes of the record when it holds some, and the content
\* of the file it refers to only when it holds no inline bytes.
C12_InlineBeforeFile ==
    \A a \in Artifacts :
        /\ a.ClientCertificateData = InlineOrFile(c.CertData, c.CertFile)
        /\ a.ClientKeyData = InlineOrFile(c.KeyData, c.KeyFile)
        /\ a.Token = InlineOrFile(c.BearerToken, c.BearerTokenFile)

\* C13: in client-certificate export mode, a record whose identity is a token
\* only, inline or by file reference, ends the invocation fatally and nothing
\* is written.
C13_TokenOnlyClientCertFails ==
    pc \in {"done", "exit"} /\ opts.printClientCert
        /\ HasToken(c) /\ ~HasCertOrKey(c) =>
            /\ exitCode = 1
            /\ stdout = <<>>
            /\ "error: building the PEM bundle with the client-certificate-data and client-key-data" \in Range(log)

\* C14: in client-certificate export mode, for a record with a client
\* certificate and a client key, what is written is the certificate followed
\* by the key.
C14_CertificateThenKey ==
    LET cert == InlineOrFile(c.CertData, c.CertFile)
        key == InlineOrFile(c.KeyData, c.KeyFile)
    IN pc = "done" /\ opts.printClientCert /\ cert # "" /\ key # "" =>
           /\ Len(stdout) = 1
           /\ stdout[1].pem = <<cert, key>>

-----------------------------------------------------------------------------
(* getServiceAccount on its own: any specifier against any directory *)

\* the values the flag --serviceaccount may be given
AnySpecifiers ==
    { <<"n", "/", "s">>, <<"m", "/", "t">>, <<"n">>, <<"n", "/", "s", "/", "x">>,
      <<"n", "/">>, <<"/", "s">>, <<"/">>, <<"n", "/", "/", "s">> }

InitSA ==
    /\ pc = "sa_call"
    /\ env = [kubeconfig |-> "", kubecontext |-> "", root |-> "/tp",
              KUBERNETES_SERVICE_HOST |-> <<>>, KUBERNETES_SERVICE_PORT |-> <<>>,
              explicitFile |-> NoKubeFile, defaultFile |-> DefaultKubeFile,
              HTTPS_PROXY |-> ""]
    /\ fs = Files(NoFile, NoFile)
    /\ c = [RestConfig("", "", "kubectl-incluster").cfg EXCEPT !.Proxy = "none"]
    /\ resolved = RestConfig("", "", "kubectl-incluster")
    /\ serviceaccount \in AnySpecifiers
    /\ dir \in Directories
    /\ saResult = SaResult("", "", <<>>)
    /\ proxyCACert = ""
    /\ probe = ProbeInit
    /\ addrs = [read |-> FALSE, err |-> FALSE, names |-> <<>>]
    /\ opts = [printClientCert |-> FALSE, printCACert |-> FALSE, replacecacert |-> NoPath]
    /\ stdout = <<>>
    /\ log = <<>>
    /\ exitCode = -1

\* line 121: token, err := getServiceAccount(untouched)
CallGetServiceAccount ==
    /\ pc = "sa_call"
    /\ saResult' = getServiceAccount(c, serviceaccount, dir)
    /\ pc' = "sa_done"
    /\ UNCHANGED <<env, fs, c, resolved, serviceaccount, dir, proxyCACert, probe,
                   addrs, opts, stdout, log, exitCode>>

NextSA == CallGetServiceAccount

SpecSA == InitSA /\ [][NextSA]_vars

\* the calls getServiceAccount made to the directory service, by kind
Calls(kind) == {i \in 1..Len(saResult.calls) : saResult.calls[i][1] = kind}

\* exactly two non-empty segments separated by a single "/"
WellFormed(specifier) ==
    \E i \in 2..(Len(specifier) - 1) :
        /\ specifier[i] = "/"
        /\ \A j \in (1..Len(specifier)) \ {i} : specifier[j] # "/"

\* C15: getServiceAccount succeeds only for a specifier of exactly two
\* non-empty segments separated by one "/"; for any other specifier it returns
\* the validation error, having built no client and made no call.
C15_SpecifierValidatedFirst ==
    pc = "sa_done" =>
        /\ saResult.err = "" => WellFormed(serviceaccount)
        /\ ~WellFormed(serviceaccount) =>
              /\ saResult.err = "expected value of the form 'namespace/serviceaccount'"
              /\ saResult.calls = <<>>

\* the lookup of line 334 has answered a service account
LookedUp ==
    /\ pc = "sa_done"
    /\ Calls("GetServiceAccount") # {}
    /\ saResult.err # "getting serviceaccount"

\* C16: CreateToken is called exactly once when the service account that was
\* looked up has no secret reference, and what it answers, token or error, is
\* what getServiceAccount returns; it is never called when the service account
\* has a secret reference, nor when no service account was looked up.
C16_TokenGeneratedOnlyWithoutSecret ==
    pc = "sa_done" =>
        IF LookedUp /\ dir.Secrets = <<>>
        THEN /\ Cardinality(Calls("CreateToken")) = 1
             /\ Calls("GetSecret") = {}
             /\ IF dir.createToken # ""
                THEN saResult.token = dir.createToken /\ saResult.err = ""
                ELSE saResult.token = "" /\ saResult.err = "failed to generate a token"
        ELSE Calls("CreateToken") = {}

C16_Witness ==
    /\ pc = "sa_done"
    /\ dir.Secrets = <<>>
    /\ Cardinality(Calls("CreateToken")) = 1
    /\ saResult.token = "tokMinted"
    /\ saResult.err = ""

\* the positions, in listed order, of the secrets of type service-account-token
TypedRefs ==
    {i \in 1..Len(dir.Secrets) :
        dir.secret[dir.Secrets[i]].Type = "kubernetes.io/service-account-token"}

\* C17: for a service account with secret references, the token returned is
\* the "token" field of the first listed secret of type service-account-token,
\* and when no listed secret has that type getServiceAccount returns an error.
C17_TokenOfFirstTypedSecret ==
    LookedUp /\ dir.Secrets # <<>> =>
        IF TypedRefs = {}
        THEN saResult.err # "" /\ saResult.token = ""
        ELSE LET first == CHOOSE i \in TypedRefs : \A j \in TypedRefs : i <= j
             IN saResult.err = "" =>
                    saResult.token = dir.secret[dir.Secrets[first]].token

-----------------------------------------------------------------------------
(* Properties of the probe's resources and of its end *)

\* the probe has started (the listener was created) and has ended, with a
\* break of the read loop or with a fatal exit
ProbeOver == probe.listener # "none" /\ pc \notin {"probe_do", "probe_read"}

\* C18: once the probe has ended, on whatever path, the listener has been
\* closed and so has the response body if a response was obtained.
C18_ProbeClosesItsResources ==
    ProbeOver =>
        /\ probe.listener = "closed"
        /\ probe.body # "none" => probe.body = "closed"

-----------------------------------------------------------------------------
(* The probe with its three parties: the handler goroutine of the temporary
   server, the proxy between the two, and the client under its deadline *)

\* the probe's state, with the handler's position (srv), the bytes the proxy
\* holds (atProxy), whether the proxy has answered (headers), whether it has
\* ended the body (eof), whether the connection to the proxy has failed
\* (fault), and whether the timer of the context has fired
ProbeInitParties ==
    [listener |-> "none", body |-> "none", status |-> 0, buf |-> ZeroBuf,
     pending |-> <<>>, received |-> <<>>, deadline |-> "pending", outcome |-> "none",
     ended |-> "none", srv |-> "idle", atProxy |-> <<>>, headers |-> FALSE,
     eof |-> FALSE, fault |-> "none", expired |-> FALSE]

InitProbe ==
    /\ pc = "probe"
    /\ env = [kubeconfig |-> "", kubecontext |-> "", root |-> "/tp",
              KUBERNETES_SERVICE_HOST |-> <<>>, KUBERNETES_SERVICE_PORT |-> <<>>,
              explicitFile |-> NoKubeFile, defaultFile |-> DefaultKubeFile,
              HTTPS_PROXY |-> "http://127.0.0.1:9090"]
    /\ fs = Files(NoFile, NoFile)
    /\ c = RestConfig("", "", "kubectl-incluster").cfg
    /\ resolved = RestConfig("", "", "kubectl-incluster")
    /\ serviceaccount = <<>>
    /\ dir = Directory(FALSE, <<>>, SecretSA, SecretSA, "")
    /\ saResult = SaResult("", "", <<>>)
    /\ proxyCACert = ""
    /\ probe = ProbeInitParties
    /\ addrs = [read |-> FALSE, err |-> FALSE, names |-> <<>>]
    /\ opts = [printClientCert |-> FALSE, printCACert |-> FALSE, replacecacert |-> NoPath]
    /\ stdout = <<>>
    /\ log = <<>>
    /\ exitCode = -1

OnlyProbe == UNCHANGED <<env, fs, c, resolved, serviceaccount, dir, saResult, proxyCACert,
                         addrs, opts, stdout, pc, log, exitCode>>
ProbeAndMain == UNCHANGED <<env, fs, c, resolved, serviceaccount, dir, saResult,
                            proxyCACert, addrs, opts, stdout>>

\* the process is running and the request of line 180 has been issued
Requested == pc \in {"probe_do", "probe_read"}
Running == pc # "exit"

\* lines 152-159
Listen ==
    /\ pc = "probe"
    /\ \E listened \in BOOLEAN :
          IF listened
          THEN /\ probe' = [probe EXCEPT !.listener = "open"]
               /\ pc' = "probe_do"
               /\ UNCHANGED <<log, exitCode>>
          ELSE Fatal("error: creating a temporary server") /\ probe' = probe
    /\ ProbeAndMain

\* the proxy passes the request on to the temporary server
ProxyConnect ==
    /\ Requested /\ probe.srv = "idle" /\ probe.listener = "open"
    /\ probe' = [probe EXCEPT !.srv = "connected"]
    /\ OnlyProbe

\* line 143: w.Write, into the buffer of the response writer
HandlerWrite ==
    /\ Running /\ probe.srv = "connected"
    /\ probe' = [probe EXCEPT !.srv = "written"]
    /\ OnlyProbe

\* lines 145-150: Flush sends the bytes to the proxy, then the handler sleeps
HandlerFlush ==
    /\ Running /\ probe.srv = "written"
    /\ probe' = [probe EXCEPT !.srv = "sleeping", !.atProxy = DONE]
    /\ OnlyProbe

\* line 150: time.Sleep(10 * time.Minute) is over and the handler returns
HandlerReturn ==
    /\ Running /\ probe.srv = "sleeping"
    /\ probe' = [probe EXCEPT !.srv = "returned"]
    /\ OnlyProbe

\* the proxy answers the client, with a status and bytes of its own choosing
ProxyHeaders ==
    /\ Requested /\ ~probe.headers
    /\ \E status \in ProbeStatuses, own \in {<<>>, <<"N", "O">>} :
          probe' = [probe EXCEPT !.headers = TRUE, !.status = status, !.pending = own]
    /\ OnlyProbe

\* the proxy passes on bytes it holds, as many as it chooses
ProxyForward ==
    /\ Requested /\ probe.headers /\ ~probe.eof
    /\ \E n \in 1..Len(probe.atProxy) :
          probe' = [probe EXCEPT !.pending = @ \o SubSeq(probe.atProxy, 1, n),
                                 !.atProxy = SubSeq(@, n + 1, Len(@))]
    /\ OnlyProbe

\* the proxy ends the body
ProxyEOF ==
    /\ Requested /\ probe.headers /\ ~probe.eof
    /\ probe' = [probe EXCEPT !.eof = TRUE]
    /\ OnlyProbe

\* the connection to the proxy fails: refused before anything was exchanged,
\* or broken later
ProxyFault ==
    /\ Requested /\ probe.fault = "none"
    /\ \E fault \in {"refused", "reset"} :
          /\ fault = "refused" => pc = "probe_do" /\ ~probe.headers /\ probe.srv = "idle"
          /\ probe' = [probe EXCEPT !.fault = fault]
    /\ OnlyProbe

\* a variant in which the request carries no deadline
ExpiredNever(p) == FALSE

\* line 177: the context of the request is done
Expired(p) == p.expired

\* line 177: 100 ms after the request was built
DeadlineExpires ==
    /\ Requested /\ ~probe.expired
    /\ probe' = [probe EXCEPT !.expired = TRUE]
    /\ OnlyProbe

\* lines 180-201: client.Do returns
DoReturns ==
    /\ pc = "probe_do"
    /\ \E result \in {"proxyconnect", "deadline", "error", "response"} :
          CASE result = "proxyconnect" ->
                  /\ probe.fault = "refused"
                  /\ Fatal("error: the env var HTTPS_PROXY is set, but the proxy doesn't seem to be running")
                  /\ probe' = probe
            [] result = "deadline" ->
                  /\ Expired(probe)
                  /\ Fatal(Remediation)
                  /\ probe' = [probe EXCEPT !.deadline = "headers"]
            [] result = "error" ->
                  /\ probe.fault = "reset"
                  /\ Fatal("error: checking whether proxy supports response streaming using a fake streaming server")
                  /\ probe' = probe
            [] result = "response" ->
                  /\ probe.headers
                  /\ probe' = [probe EXCEPT !.body = "open"]
                  /\ IF ~StatusPasses(probe.status)
                     THEN Fatal("error: the fake server returned a non-200 status code")
                     ELSE pc' = "probe_read" /\ UNCHANGED <<log, exitCode>>
    /\ ProbeAndMain

\* lines 203-221: resp.Body.Read returns, and what the loop does with it
ReadReturns ==
    /\ pc = "probe_read"
    /\ \E result \in {"data", "EOF", "deadline", "error"} :
          CASE result = "data" ->
                  \E n \in 1..Len(probe.pending) :
                     LET data == SubSeq(probe.pending, 1, n)
                         buf == ReadInto(probe.buf, data)
                         read == [probe EXCEPT
                                    !.buf = buf,
                                    !.pending = SubSeq(probe.pending, n + 1,
                                                       Len(probe.pending)),
                                    !.received = probe.received \o data]
                     IN /\ n <= BufLen
                        /\ IF MarkerSeen(buf)
                           THEN /\ probe' = ProbeEnd(read, "marker")
                                /\ pc' = "alias"
                           ELSE /\ probe' = read
                                /\ pc' = pc
                        /\ UNCHANGED <<log, exitCode>>
            [] result = "EOF" ->
                  /\ probe.pending = <<>> /\ probe.eof
                  /\ probe' = ProbeEnd(probe, "EOF")
                  /\ pc' = "alias"
                  /\ UNCHANGED <<log, exitCode>>
            [] result = "deadline" ->
                  /\ Expired(probe)
                  /\ Fatal("error: checking whether proxy supports response streaming: while reading the response body")
                  /\ probe' = [probe EXCEPT !.deadline = "body"]
            [] result = "error" ->
                  /\ probe.fault = "reset"
                  /\ Fatal("error: checking whether proxy supports response streaming: while reading the response body")
                  /\ probe' = probe
    /\ ProbeAndMain

NextProbe ==
    \/ Listen
    \/ ProxyConnect
    \/ HandlerWrite
    \/ HandlerFlush
    \/ HandlerReturn
    \/ ProxyHeaders
    \/ ProxyForward
    \/ ProxyEOF
    \/ ProxyFault
    \/ DeadlineExpires
    \/ DoReturns
    \/ ReadReturns

\* the main goroutine takes its next step when it can, and the timer of the
\* context fires; nothing is assumed of the proxy nor of the handler
SpecProbe ==
    /\ InitProbe
    /\ [][NextProbe]_vars
    /\ WF_vars(Listen)
    /\ WF_vars(DoReturns)
    /\ WF_vars(ReadReturns)
    /\ WF_vars(DeadlineExpires)

ProbeFinished == pc \in {"alias", "exit"}

\* C19: the probe always ends, with StreamingSupported or with a fatal exit,
\* whatever the proxy does and whether or not the handler's sleep is over.
C19_ProbeAlwaysEnds ==
    /\ <>ProbeFinished
    /\ [](ProbeFinished =>
            \/ pc = "alias" /\ probe.outcome = "StreamingSupported"
            \/ pc = "exit" /\ exitCode = 1)

\* the probe has ended on the marker while the handler is still asleep
C19_Witness ==
    /\ pc = "alias"
    /\ probe.ended = "marker"
    /\ probe.srv = "sleeping"
    /\ probe.outcome = "StreamingSupported"

-----------------------------------------------------------------------------
(* Properties of the handling of failures *)

\* the request to the certificate endpoint of the proxy failed: every answer
\* of MitmResponses that is not an error has a body
FetchFailed == pc # "start" /\ env.HTTPS_PROXY # "" /\ proxyCACert = ""

\* InClusterConfig read the token file and could not
TokenReadFailed ==
    /\ Resolved
    /\ ~(env.kubeconfig # "" /\ ~Loads(env.explicitFile))
    /\ Len(env.KUBERNETES_SERVICE_HOST) > 0
    /\ Len(env.KUBERNETES_SERVICE_PORT) > 0
    /\ fs[tokenFile] = NoFile

\* InClusterConfig could not read ca.crt
TrustAnchorReadFailed ==
    /\ Resolved /\ resolved.err = ""
    /\ Ambient
    /\ fs[rootCAFile] = NoFile

-----------------------------------------------------------------------------
(* Properties of the order of the stages and of the endpoint *)

\* the endpoint names the local machine (line 225)
LoopbackEndpoint(host) == Contains(host, Localhost) \/ Contains(host, Loopback)

\* C21 as stated: with a proxy and a loopback endpoint, the alias lookup has
\* happened by the time the probe server is started.
C21_AliasBeforeProbe ==
    probe.listener # "none" /\ LoopbackEndpoint(resolved.cfg.Host) => addrs.read

\* C21: the stages run in the order resolver, exchange, probe, alias lookup,
\* synthesis: the probe starts only after resolution and the exchange have
\* succeeded, the host-alias table is read only after the probe has ended with
\* StreamingSupported and closed its listener, and output is written only
\* after the alias lookup that the endpoint called for.
C21_ProbeBeforeAlias ==
    /\ probe.listener # "none" =>
          /\ pc \notin {"start", "resolve", "sa"}
          /\ resolved.err = "" /\ saResult.err = ""
    /\ addrs.read =>
          /\ probe.outcome = "StreamingSupported"
          /\ probe.listener = "closed"
          /\ pc \notin {"start", "resolve", "sa", "probe", "probe_do", "probe_read"}
    /\ stdout # <<>> =>
          /\ env.HTTPS_PROXY # "" => probe.outcome = "StreamingSupported"
          /\ env.HTTPS_PROXY # "" /\ LoopbackEndpoint(resolved.cfg.Host) => addrs.read

\* the table was read after a probe that ended on the marker
C21_Witness ==
    /\ pc = "output"
    /\ addrs.read
    /\ probe.ended = "marker"
    /\ probe.listener = "closed"

\* the scheme of an endpoint: what precedes the first ":"
SchemeOf(host) ==
    IF ":" \notin Range(host) THEN <<>>
    ELSE SubSeq(host, 1, (CHOOSE i \in 1..Len(host) :
                             host[i] = ":" /\ \A j \in 1..(i - 1) : host[j] # ":") - 1)

SchemeHttps == <<"h", "t", "t", "p", "s">>

\* C22 as stated: from the end of resolution on, the scheme of the endpoint is
\* "https", in the record and in every artifact.
C22_SchemeAlwaysHttps ==
    /\ Resolved /\ resolved.err = "" =>
          SchemeOf(resolved.cfg.Host) = SchemeHttps /\ SchemeOf(c.Host) = SchemeHttps
    /\ \A a \in Artifacts : SchemeOf(a.Server) = SchemeHttps

\* C22: the scheme of the endpoint is "https" for the ambient source, and for
\* a kubeconfig file it is the scheme of the server the file names; no later
\* stage changes it, the alias rewrite included, up to the written artifact.
C22_SchemeKept ==
    /\ Resolved /\ resolved.err = "" =>
          /\ Ambient => SchemeOf(resolved.cfg.Host) = SchemeHttps
          /\ ~Ambient => resolved.cfg.Host = env.defaultFile.Contexts[Selected(env.defaultFile)].Host
          /\ SchemeOf(c.Host) = SchemeOf(resolved.cfg.Host)
    /\ \A a \in Artifacts : SchemeOf(a.Server) = SchemeOf(resolved.cfg.Host)

\* an artifact for an endpoint served over http, after the alias rewrite
C22_Witness ==
    /\ pc = "done"
    /\ resolved.cfg.Host = HostHttp
    /\ addrs.read /\ FirstAlias(addrs.names) = Me
    /\ \E a \in Artifacts : SchemeOf(a.Server) = <<"h", "t", "t", "p">> /\ a.Server # HostHttp

\* C23: after resolution the endpoint is changed by the alias stage alone:
\* until the host-alias table has been read the endpoint is the resolved one,
\* the table is not read without a proxy or for an endpoint that is not
\* loopback, after the lookup the endpoint is the one rewrite of the resolved
\* endpoint, and the server of the artifact is the endpoint so obtained.
C23_EndpointChangedByAliasOnly ==
    Resolved /\ resolved.err = "" =>
        /\ env.HTTPS_PROXY = "" \/ ~LoopbackEndpoint(resolved.cfg.Host) => ~addrs.read
        /\ ~addrs.read \/ addrs.err => c.Host = resolved.cfg.Host
        /\ addrs.read /\ ~addrs.err =>
              c.Host = RewriteHost(resolved.cfg.Host, FirstAlias(addrs.names))
        /\ \A a \in Artifacts : a.Server = c.Host

\* an artifact written with a proxy, after an exchange and with the proxy's
\* trust anchor, for an endpoint that is not loopback
C23_Witness ==
    /\ pc = "done"
    /\ env.HTTPS_PROXY # ""
    /\ ~LoopbackEndpoint(resolved.cfg.Host)
    /\ serviceaccount # <<>>
    /\ proxyCACert # ""
    /\ ~addrs.read
    /\ \E a \in Artifacts : a.Server = resolved.cfg.Host

-----------------------------------------------------------------------------
(* Properties that relate the artifact, the exports and the record *)

\* the record a client loads from an artifact: the artifact holds everything
\* inline and refers to no file
ParseArtifact(a) ==
    [EmptyCfg EXCEPT !.Host = a.Server,
                     !.CAData = a.CertificateAuthorityData,
                     !.CertData = a.ClientCertificateData,
                     !.KeyData = a.ClientKeyData,
                     !.BearerToken = a.Token]

TrustAnchorOf(cfg) == InlineOrFile(cfg.CAData, cfg.CAFile)
IdentityOf(cfg) ==
    [token |-> InlineOrFile(cfg.BearerToken, cfg.BearerTokenFile),
     cert |-> InlineOrFile(cfg.CertData, cfg.CertFile),
     key |-> InlineOrFile(cfg.KeyData, cfg.KeyFile)]

\* C24: with no override and no trust anchor from the proxy, the record parsed
\* back from the artifact has the endpoint, the trust-anchor bytes and the
\* identity (token, certificate, key) of the record the artifact was built from.
C24_ArtifactRoundTrip ==
    pc = "done" /\ proxyCACert = "" /\ opts.replacecacert = NoPath =>
        \A a \in Artifacts :
            LET back == ParseArtifact(a)
            IN /\ back.Host = c.Host
               /\ TrustAnchorOf(back) = TrustAnchorOf(c)
               /\ IdentityOf(back) = IdentityOf(c)

-----------------------------------------------------------------------------
(* Further properties of the streaming probe *)

\* a status of the 2xx class
Status2xx(status) == status >= 200 /\ status < 300

\* client.Do has returned a response
Responded == probe.status # 0

\* C25: once the probe's request has returned a response, the invocation ends
\* there with an error exactly when the status is not a 2xx status; with a 2xx
\* status the probe goes on to read the body.
C25_FatalExactlyOnNon2xx ==
    Responded =>
        IF Status2xx(probe.status)
        THEN "error: the fake server returned a non-200 status code" \notin Range(log)
        ELSE /\ "error: the fake server returned a non-200 status code" \in Range(log)
             /\ pc = "exit" /\ exitCode = 1

\* C25: once the probe's request has returned a response, the invocation ends
\* there with an error exactly when the status is not 200; with the status 200
\* the probe goes on to read the body.
C25_FatalExactlyOnNon200 ==
    Responded =>
        IF probe.status = 200
        THEN /\ "error: the fake server returned a non-200 status code" \notin Range(log)
             /\ probe.body # "none"
        ELSE /\ "error: the fake server returned a non-200 status code" \in Range(log)
             /\ pc = "exit" /\ exitCode = 1

\* a response with a 2xx status other than 200 has ended the invocation
C25_Witness ==
    /\ probe.status = 204
    /\ pc = "exit"
    /\ exitCode = 1
    /\ "error: the fake server returned a non-200 status code" \in Range(log)

\* C26: the probe ends with StreamingSupported, and the run goes on to the
\* alias and synthesis stages, only if the marker DONE was received in the
\* body of the response.
C26_PassOnlyWithMarker ==
    /\ probe.outcome = "StreamingSupported" => Contains(probe.received, DONE)
    /\ env.HTTPS_PROXY # "" /\ pc \in {"alias", "output", "done"} =>
          Contains(probe.received, DONE)

\* the values of --replace-ca-cert that name a readable file, and none
Overrides == {NoPath, <<"", "/replace.pem">>}

\* C27: what --print-ca-cert has printed is the certificate-authority data
\* that the default mode embeds in the artifact for the same record, the same
\* override and the same trust anchor from the proxy.
C27_PrintedCAIsArtifactCA ==
    pc = "done" /\ opts.printCACert =>
        \A replace \in Overrides :
            LET k == kubeconfigFromRestConfig(c, replace, proxyCACert)
            IN /\ k.err = ""
               /\ stdout[1].pem = <<k.apiconf.CertificateAuthorityData>>

\* C28: kubeconfigFromRestConfig leaves the record passed to it as it was:
\* once an artifact has been built, the trust-anchor file reference of the
\* record main holds is still the one resolution gave it, and a further call
\* without override gives what it would have given before the first call.
C28_RecordUnchangedBySynthesis ==
    Artifacts # {} =>
        LET before == [c EXCEPT !.CAFile = resolved.cfg.CAFile]
        IN /\ c.CAFile = resolved.cfg.CAFile
           /\ kubeconfigFromRestConfig(c, NoPath, proxyCACert).apiconf
                 = kubeconfigFromRestConfig(before, NoPath, proxyCACert).apiconf

-----------------------------------------------------------------------------
(* The whole run behind a proxy, with the requests it sends through it: the
   fetch of the proxy's certificate, then the probe with its three parties *)

InitProxied ==
    /\ pc = "start"
    /\ env = [kubeconfig |-> "", kubecontext |-> "", root |-> "/tp",
              KUBERNETES_SERVICE_HOST |-> <<>>, KUBERNETES_SERVICE_PORT |-> <<>>,
              explicitFile |-> NoKubeFile, defaultFile |-> DefaultKubeFile,
              HTTPS_PROXY |-> "http://127.0.0.1:9090"]
    /\ fs = Files(NoFile, NoFile)
    /\ c = EmptyCfg
    /\ resolved = Err("not called")
    /\ serviceaccount = <<>>
    /\ dir = Directory(FALSE, <<>>, SecretSA, SecretSA, "")
    /\ saResult = SaResult("", "", <<>>)
    /\ proxyCACert = ""
    /\ probe = ProbeInitParties @@ [certAnswered |-> FALSE]
    /\ addrs = [read |-> FALSE, err |-> FALSE, names |-> <<>>]
    /\ opts = [printClientCert |-> FALSE, printCACert |-> FALSE, replacecacert |-> NoPath]
    /\ stdout = <<>>
    /\ log = <<>>
    /\ exitCode = -1

\* line 303: client.Get is called, with a client that has no Timeout and a
\* request that has no context
GetCACert ==
    /\ pc = "start"
    /\ pc' = "fetching"
    /\ UNCHANGED <<env, fs, c, resolved, serviceaccount, dir, saResult, proxyCACert,
                   probe, addrs, opts, stdout, log, exitCode>>

\* the proxy answers the request for its certificate, or the connection fails
ProxyAnswersCert ==
    /\ pc = "fetching" /\ ~probe.certAnswered
    /\ probe' = [probe EXCEPT !.certAnswered = TRUE]
    /\ OnlyProbe

\* lines 78-85 and 303-317: client.Get returns, the body is read
GetCACertReturns ==
    /\ pc = "fetching" /\ probe.certAnswered
    /\ \E resp \in MitmResponses :
          LET r == fetchCACertFromMitmproxy(resp)
          IN proxyCACert' = r.pem /\ log' = log \o r.logged
    /\ pc' = "resolve"
    /\ UNCHANGED <<env, fs, c, resolved, serviceaccount, dir, saResult, probe,
                   addrs, opts, stdout, exitCode>>

\* lines 93-98 when neither --serviceaccount nor --sa is given
NoServiceAccount == ServiceAccount /\ serviceaccount' = <<>>

NextProxied ==
    \/ GetCACert
    \/ ProxyAnswersCert
    \/ GetCACertReturns
    \/ Resolve
    \/ NoServiceAccount
    \/ NextProbe
    \/ Alias
    \/ Output

\* main takes its next step when it can and the timer of the probe's context
\* fires; nothing is assumed of the proxy nor of the handler
SpecProxied ==
    /\ InitProxied
    /\ [][NextProxied]_vars
    /\ WF_vars(GetCACert)
    /\ WF_vars(GetCACertReturns)
    /\ WF_vars(Resolve)
    /\ WF_vars(NoServiceAccount)
    /\ WF_vars(Listen)
    /\ WF_vars(DoReturns)
    /\ WF_vars(ReadReturns)
    /\ WF_vars(DeadlineExpires)
    /\ WF_vars(Alias)
    /\ WF_vars(Output)

\* C29: behind a proxy the invocation always ends, whatever the proxy does
\* with the requests sent through it, the request for its certificate and the
\* probe's request alike.
C29_AlwaysEndsBehindProxy == <>(pc \in {"done", "exit"})

\* C30: the body of the answer to the certificate request is used as the
\* trust anchor supplied by the proxy only when the answer has the content
\* type application/x-x509-ca-cert: after an answer with another content
\* type, nothing is kept as the proxy's trust anchor, and its body is the
\* trust anchor neither of an artifact nor of a trust-anchor export.
C30_BodyUsedOnlyWithExpectedContentType ==
    "error: unexpected content type of GET mitm.it/cert/pem" \in Range(log) =>
        /\ proxyCACert = ""
        /\ \A a \in Artifacts : a.CertificateAuthorityData # "html"
        /\ \A i \in 1..Len(stdout) : "html" \notin Range(stdout[i].pem)

====
